---- MODULE Spec2Model ----
\* Field-force tracker: the check-in / checkout lifecycle of backend/routes/checkin.js
\* as the repository documents it (the statements and status codes quoted in the bug
\* notes, the race described in the Q&A notes), run by concurrent requests against the
\* shared checkins table; the read-only endpoints over that table, the daily
\* summary of backend/routes/report.js and the date-filtered history; and the React
\* frontend in front of them: the axios instance of utils/api.js, the routes of App,
\* and the History, CheckIn and Report pages with the times they display.
EXTENDS Integers, Sequences, FiniteSets, TLC

\* ---------------------------------------------------------------- bounds
\* Number of HTTP requests served in one behaviour.
MaxReq == 3
\* Last value of the server clock (seconds); the clock starts at 1.
MaxNow == 2
\* Employees are numbered 1..NumEmployees.
NumEmployees == 2
\* Largest checkins table the read-only endpoints are tried on.
MaxRows == 1
\* Seconds of the server clock that make one calendar day.
SecondsPerDay == 2

Requests == 1..MaxReq
Employees == 1..NumEmployees

\* A checkout_time that was never set (SQL NULL); real timestamps are >= 1.
NULL == 0

\* client_id values a request body can carry: "" is the missing/empty one.
ClientIds == {"", "c1"}
\* latitude / longitude values a request body can carry: "" is the missing one, "abc"
\* one that is not a number.
Coordinates == {"", "abc", "28.45"}
\* The coordinates that are numbers.
NumericCoordinates == {"28.45"}
Kinds == {"checkin", "checkout", "active", "history"}

\* ---------------------------------------------------------------- state
VARIABLES
    checkins,   \* the checkins table: row i has id i
    now,        \* the server clock read by datetime('now'), in whole seconds
    pc,         \* where each request's handler stands
    req,        \* each request's method, authenticated employee and body
    found,      \* the id of the row the handler's SELECT returned (NULL: no row)
    res,        \* the response each request received
    concurrent, \* whether another request of the same employee ran while this one did
    rreq,       \* the request made to a read-only endpoint (report, filtered history)
    rsql,       \* the statements that request executed on the store, with their params
    rres,       \* the response that request received
    rerr,       \* the error the store raised while executing them ("": none)
    localStorage, \* the browser's stored session: token and user
    location,   \* the path the browser is at
    failure,    \* the last failed call of the axios instance and how it was settled
    historyPage, \* the state of the History page and its request in flight
    checkInPage, \* the state of the CheckIn page and its requests in flight
    viewer,     \* a stored timestamp and the UTC offset of the browser looking at it
    shown       \* the times the pages display for it

\* What a request of the check-in lifecycle leaves alone.
web == <<rreq, rsql, rres, rerr>>

\* What the backend leaves alone: the state of the browser.
ui == <<localStorage, location, failure, historyPage, checkInPage, viewer, shown>>

\* What the browser leaves alone: the state of the backend.
backend == <<checkins, now, pc, req, found, res, concurrent, web>>

vars == <<backend, ui>>

NoRequest ==
    [kind |-> "none", employee_id |-> 1, client_id |-> "", latitude |-> "", longitude |-> ""]
NoResponse == [status |-> 0, success |-> FALSE, message |-> "", data |-> <<>>]

\* ---------------------------------------------------------------- the store
Ids == 1..Len(checkins)

\* The SELECT without its status filter: every row of the employee.
ActiveRows_NoStatus(e) == SelectSeq(checkins, LAMBDA row : row.employee_id = e)

\* The SELECT without its employee filter: every open row.
ActiveRows_AnyEmployee(e) == SelectSeq(checkins, LAMBDA row : row.status = "checked_in")

\* SELECT * FROM checkins WHERE employee_id = ? AND status = 'checked_in'
ActiveRows(e) ==
    SelectSeq(checkins, LAMBDA row : row.employee_id = e /\ row.status = "checked_in")

\* The rows of one employee, whatever their status.
RowsOf(e) == SelectSeq(checkins, LAMBDA row : row.employee_id = e)

RECURSIVE Reverse(_)
Reverse(s) == IF s = <<>> THEN <<>> ELSE Append(Reverse(Tail(s)), Head(s))

\* What a handler may take as "the" row of a SELECT without ORDER BY: any row matched.
RowsIn(rows) == {rows[i] : i \in DOMAIN rows}

\* INSERT INTO checkins (...): a new row, checked in at the current second
NewRow(e, c) ==
    [id |-> Len(checkins) + 1, employee_id |-> e, client_id |-> c,
     checkin_time |-> now, checkout_time |-> NULL, status |-> "checked_in"]

\* The UPDATE setting checkout_time only: the row stays 'checked_in'.
CheckoutRows_StatusKept(id) ==
    [i \in Ids |->
        IF checkins[i].id = id
        THEN [checkins[i] EXCEPT !.checkout_time = now]
        ELSE checkins[i]]

\* The UPDATE setting status only: checkout_time stays null.
CheckoutRows_NoTime(id) ==
    [i \in Ids |->
        IF checkins[i].id = id
        THEN [checkins[i] EXCEPT !.status = "checked_out"]
        ELSE checkins[i]]

\* UPDATE checkins SET checkout_time = datetime('now'), status = 'checked_out' WHERE id = ?
CheckoutRows(id) ==
    [i \in Ids |->
        IF checkins[i].id = id
        THEN [checkins[i] EXCEPT !.checkout_time = now, !.status = "checked_out"]
        ELSE checkins[i]]

\* ---------------------------------------------------------------- responses
Created(row) ==
    [status |-> 201, success |-> TRUE, message |-> "", data |-> <<row>>]
Ok(rows) ==
    [status |-> 200, success |-> TRUE, message |-> "", data |-> rows]
\* The missing client_id answered 200, as before the status-code fix.
ClientIdRequired_As200 ==
    [status |-> 200, success |-> FALSE, message |-> "Client ID is required", data |-> <<>>]
ClientIdRequired ==
    [status |-> 400, success |-> FALSE, message |-> "Client ID is required", data |-> <<>>]
\* InvalidInput for a location that is missing or not a pair of numbers.
LocationRequired ==
    [status |-> 400, success |-> FALSE, message |-> "Location is required", data |-> <<>>]
\* The conflict answered as a bad request, as before the status-code fix.
AlreadyCheckedIn_As400 ==
    [status |-> 400, success |-> FALSE,
     message |-> "You already have an active check-in", data |-> <<>>]
AlreadyCheckedIn ==
    [status |-> 409, success |-> FALSE,
     message |-> "You already have an active check-in", data |-> <<>>]
NoActiveCheckin ==
    [status |-> 404, success |-> FALSE, message |-> "No active check-in found", data |-> <<>>]
\* StorageUnavailable: the store failed or timed out under the handler.
StorageUnavailable ==
    [status |-> 500, success |-> FALSE, message |-> "Internal server error", data |-> <<>>]

\* ---------------------------------------------------------------- users and dates
\* The two managers; user ids go on from the employees'.
Managers == {NumEmployees + 1, NumEmployees + 2}

\* The last employee reports to the second manager, every other to the first.
ManagerOf(e) == IF e = NumEmployees THEN NumEmployees + 2 ELSE NumEmployees + 1

\* The users table.
users ==
    [u \in Employees \cup Managers |->
        IF u \in Employees
        THEN [id |-> u, name |-> "employee " \o ToString(u), role |-> "employee",
              manager_id |-> ManagerOf(u)]
        ELSE [id |-> u, name |-> "manager " \o ToString(u), role |-> "manager",
              manager_id |-> NULL]]

\* An employee_id no user has.
Nobody == NumEmployees + 3

Digits == <<"0", "1", "2", "3", "4", "5", "6", "7", "8", "9">>

\* A calendar date is the string YYYY-MM-DD, kept as its sequence of characters:
\* day d of the model is 2026-01-2d.
DateString(d) == <<"2", "0", "2", "6", "-", "0", "1", "-", "2", Digits[d + 1]>>

\* SQLite's DATE(timestamp): the calendar date a second of the clock falls on.
DATE(t) == DateString(t \div SecondsPerDay)

\* The characters of the model's strings, in their byte order.
Ascii == <<"'", "-", "/">> \o Digits \o <<"x">>
Ord(c) == CHOOSE i \in DOMAIN Ascii : Ascii[i] = c

\* a <= b as SQLite compares two strings: byte by byte, a prefix first.
RECURSIVE LessEq(_, _)
LessEq(a, b) ==
    IF a = <<>> THEN TRUE
    ELSE IF b = <<>> THEN FALSE
    ELSE IF Head(a) = Head(b) THEN LessEq(Tail(a), Tail(b))
    ELSE Ord(Head(a)) < Ord(Head(b))

\* The string made of the characters s.
RECURSIVE Join(_)
Join(s) == IF s = <<>> THEN "" ELSE Head(s) \o Join(Tail(s))

IsDigit(c) == \E i \in DOMAIN Digits : Digits[i] = c

\* /\d{4}-\d{2}-\d{2}/ without its anchors: the pattern is found at the start, whatever
\* follows.
MatchesDate_Unanchored(date) ==
    /\ Len(date) >= 10
    /\ \A i \in {1, 2, 3, 4, 6, 7, 9, 10} : IsDigit(date[i])
    /\ date[5] = "-" /\ date[8] = "-"

\* /^\d{4}-\d{2}-\d{2}$/.test(date)
MatchesDate(date) ==
    /\ Len(date) = 10
    /\ \A i \in {1, 2, 3, 4, 6, 7, 9, 10} : IsDigit(date[i])
    /\ date[5] = "-" /\ date[8] = "-"

\* ---------------------------------------------------------------- read-only endpoints
NoRead ==
    [kind |-> "none", token |-> "", user |-> 1, date |-> <<>>, employee_id |-> <<>>,
     start_date |-> <<>>, end_date |-> <<>>]

\* authenticateToken: the token is there and verifies.
Authenticated(token) == token = "jwt"

InvalidToken ==
    [status |-> 401, success |-> FALSE, message |-> "Invalid or expired token", data |-> <<>>]
Unauthorized ==
    [status |-> 403, success |-> FALSE, message |-> "Unauthorized", data |-> <<>>]
InvalidDate ==
    [status |-> 400, success |-> FALSE,
     message |-> "Invalid or missing date (YYYY-MM-DD required)", data |-> <<>>]

\* The errors pool.execute can throw at the daily summary.
StoreErrors == {"SQLITE_BUSY: database is locked"}

\* The catch of the daily summary answering with the error's text.
ReportFailed_WithErrorText(error) ==
    [status |-> 500, success |-> FALSE, message |-> error, data |-> <<>>]

\* The catch of the daily summary: the error is logged, the answer is fixed.
ReportFailed(error) ==
    [status |-> 500, success |-> FALSE, message |-> "Failed to generate report",
     data |-> <<>>]

\* The SELECT of the daily summary up to its WHERE clause.
SummarySelect ==
    "SELECT u.id AS employee_id, u.name AS employee_name, "
    \o "COUNT(ch.id) AS total_checkins, "
    \o "COUNT(DISTINCT ch.client_id) AS clients_visited, "
    \o "ROUND(IFNULL(SUM((julianday(IFNULL(ch.checkout_time, ch.checkin_time)) "
    \o "- julianday(ch.checkin_time)) * 24 * 60), 0), 2) AS minutes_worked "
    \o "FROM users u LEFT JOIN checkins ch ON u.id = ch.employee_id "
    \o "WHERE u.manager_id = ? "
    \o "AND (ch.checkin_time IS NULL OR DATE(ch.checkin_time) = ?)"
SummaryOne == " AND u.id = ?"
SummaryGroup == " GROUP BY u.id ORDER BY u.name"

\* The statement the daily summary runs: query text and params.
SummaryQuery(user, date, employee_id) ==
    [query |-> SummarySelect
               \o (IF employee_id # <<>> THEN SummaryOne ELSE "")
               \o SummaryGroup,
     params |-> <<user, date>> \o employee_id]

\* users LEFT JOIN checkins: the user's check-ins, or one all-null row when there are none.
NullRow ==
    [id |-> NULL, employee_id |-> NULL, client_id |-> "", checkin_time |-> NULL,
     checkout_time |-> NULL, status |-> ""]
Joined(u) == IF RowsOf(u) = <<>> THEN <<NullRow>> ELSE RowsOf(u)

\* The joined rows of user u that pass the date test of the WHERE clause.
Kept(u, date) ==
    SelectSeq(Joined(u),
              LAMBDA ch : ch.checkin_time = NULL \/ DATE(ch.checkin_time) = date)

\* Seconds between check-in and checkout of the rows, an open row counting for none.
RECURSIVE Elapsed(_)
Elapsed(rows) ==
    IF rows = <<>> THEN 0
    ELSE (IF Head(rows).checkout_time = NULL
          THEN 0
          ELSE Head(rows).checkout_time - Head(rows).checkin_time)
         + Elapsed(Tail(rows))

\* ROUND(days * 24 * 60, 2): the minutes in a number of seconds, in hundredths of a
\* minute, rounded to the nearest.
Minutes(seconds) == (seconds * 100 + 30) \div 60

\* One result row of the GROUP BY: the aggregates over the kept rows of user u.
SummaryRow(u, date) ==
    LET rows == SelectSeq(Kept(u, date), LAMBDA ch : ch.id # NULL) IN
    [employee_id |-> u, employee_name |-> users[u].name,
     total_checkins |-> Len(rows),
     clients_visited |-> Cardinality({rows[i].client_id : i \in DOMAIN rows}),
     minutes_worked |-> Minutes(Elapsed(rows))]

\* The store executing the statement without its test of u.manager_id.
SummaryRows_AnyManager(stmt) ==
    LET one == stmt.query = SummarySelect \o SummaryOne \o SummaryGroup
        all == [u \in 1..(NumEmployees + 2) |-> u]
        hit == SelectSeq(all, LAMBDA u :
                   /\ users[u].role = "employee"
                   /\ one => u = stmt.params[3]
                   /\ Kept(u, stmt.params[2]) # <<>>)
    IN [i \in DOMAIN hit |-> SummaryRow(hit[i], stmt.params[2])]

\* The store executing the daily-summary statement: one row for each user of the
\* manager with a joined row that passes the WHERE clause, and only the user of the
\* third parameter when the text has the clause for it.
SummaryRows(stmt) ==
    LET one == stmt.query = SummarySelect \o SummaryOne \o SummaryGroup
        all == [u \in 1..(NumEmployees + 2) |-> u]
        hit == SelectSeq(all, LAMBDA u :
                   /\ users[u].manager_id = stmt.params[1]
                   /\ one => u = stmt.params[3]
                   /\ Kept(u, stmt.params[2]) # <<>>)
    IN [i \in DOMAIN hit |-> SummaryRow(hit[i], stmt.params[2])]

\* rows.reduce(...): the team totals.
RECURSIVE TeamStats(_)
TeamStats(rows) ==
    IF rows = <<>>
    THEN [total_employees |-> 0, total_checkins |-> 0, total_minutes |-> 0,
          total_clients |-> 0]
    ELSE LET acc == TeamStats(SubSeq(rows, 1, Len(rows) - 1))
             e == rows[Len(rows)]
         IN [total_employees |-> acc.total_employees + 1,
             total_checkins |-> acc.total_checkins + e.total_checkins,
             total_minutes |-> acc.total_minutes + e.minutes_worked,
             total_clients |-> acc.total_clients + e.clients_visited]

Summary(date, rows) ==
    [status |-> 200, success |-> TRUE, message |-> "",
     data |-> <<[date |-> date, employees |-> rows, team_stats |-> TeamStats(rows)]>>]

\* The history statement with the bounds written into its text, as before the fix.
HistoryQuery_Interpolated(e, start_date, end_date) ==
    [query |-> "SELECT ch.* FROM checkins ch WHERE ch.employee_id = ?"
               \o (IF start_date # <<>>
                   THEN " AND DATE(ch.checkin_time) >= '" \o Join(start_date) \o "'"
                   ELSE "")
               \o (IF end_date # <<>>
                   THEN " AND DATE(ch.checkin_time) <= '" \o Join(end_date) \o "'"
                   ELSE "")
               \o " ORDER BY ch.checkin_time DESC",
     params |-> <<e>>]

HistorySelect == "SELECT ch.* FROM checkins ch WHERE ch.employee_id = ?"
HistoryFrom == " AND DATE(ch.checkin_time) >= ?"
HistoryTo == " AND DATE(ch.checkin_time) <= ?"
HistoryOrder == " ORDER BY ch.checkin_time DESC"

\* The statement the history runs: each bound given adds its clause and its parameter.
HistoryQuery(e, start_date, end_date) ==
    [query |-> HistorySelect
               \o (IF start_date # <<>> THEN HistoryFrom ELSE "")
               \o (IF end_date # <<>> THEN HistoryTo ELSE "")
               \o HistoryOrder,
     params |-> <<e>> \o (IF start_date # <<>> THEN <<start_date>> ELSE <<>>)
                     \o (IF end_date # <<>> THEN <<end_date>> ELSE <<>>)]

\* The store executing the history statement: the employee's rows within the bounds
\* the text has clauses for, most recent check-in first.
HistoryRows(stmt) ==
    LET from == stmt.query \in {HistorySelect \o HistoryFrom \o h \o HistoryOrder :
                                   h \in {"", HistoryTo}}
        to == stmt.query \in {HistorySelect \o h \o HistoryTo \o HistoryOrder :
                                 h \in {"", HistoryFrom}}
    IN Reverse(SelectSeq(RowsOf(stmt.params[1]), LAMBDA ch :
                   /\ from => LessEq(stmt.params[2], DATE(ch.checkin_time))
                   /\ to => LessEq(DATE(ch.checkin_time), stmt.params[Len(stmt.params)])))

\* ---------------------------------------------------------------- requests
\* A request is in flight between its first and its last statement on the store.
InFlight == {q \in Requests : pc[q] \notin {"new", "done"}}

\* Requests are numbered in the order in which they reach the store.
IsNext(r) == pc[r] = "new" /\ (IF r = 1 THEN TRUE ELSE pc[r - 1] # "new")

\* Ends request r with response x.
Respond(r, x) ==
    /\ res' = [res EXCEPT ![r] = x]
    /\ pc' = [pc EXCEPT ![r] = "done"]

\* Request r, of employee e, runs a statement: it and every request of e in flight
\* at that moment ran concurrently.
Meet(r, e) ==
    LET others == {q \in InFlight \ {r} : req[q].employee_id = e} IN
    concurrent' = [q \in Requests |->
                      IF q = r THEN concurrent[r] \/ others # {}
                      ELSE IF q \in others THEN TRUE
                      ELSE concurrent[q]]

\* The body's location is present and both its coordinates are numbers.
ValidLocation(lat, lng) == lat \in NumericCoordinates /\ lng \in NumericCoordinates

\* POST /checkin: a missing client_id is a 400, and so is a missing or non-numeric
\* location; an active check-in of the employee is a 409; otherwise the handler goes
\* on to insert.
PostCheckin(r, e, c, lat, lng) ==
    /\ IsNext(r)
    /\ req' = [req EXCEPT ![r] = [kind |-> "checkin", employee_id |-> e, client_id |-> c,
                                  latitude |-> lat, longitude |-> lng]]
    /\ IF c = ""
       THEN Respond(r, ClientIdRequired) /\ UNCHANGED concurrent
       ELSE IF ~ValidLocation(lat, lng)
       THEN Respond(r, LocationRequired) /\ UNCHANGED concurrent
       ELSE /\ Meet(r, e)
            /\ IF ActiveRows(e) # <<>>
               THEN Respond(r, AlreadyCheckedIn)
               ELSE /\ pc' = [pc EXCEPT ![r] = "insert"]
                    /\ UNCHANGED res
    /\ UNCHANGED <<checkins, now, found, web, ui>>

\* The first statement of a check-in or checkout request fails or times out: the
\* request ends with a 500 and nothing was written.
AbortAtCheck(r, e, k) ==
    /\ IsNext(r)
    /\ req' = [req EXCEPT ![r] = [kind |-> k, employee_id |-> e,
                                  client_id |-> IF k = "checkin" THEN "c1" ELSE "",
                                  latitude |-> IF k = "checkin" THEN "28.45" ELSE "",
                                  longitude |-> IF k = "checkin" THEN "28.45" ELSE ""]]
    /\ Meet(r, e)
    /\ Respond(r, StorageUnavailable)
    /\ UNCHANGED <<checkins, now, found, web, ui>>

\* The statement a request was about to run (its INSERT or its UPDATE) fails or times
\* out: the request ends with a 500 and the statement wrote nothing.
Abort(r) ==
    /\ pc[r] \in {"insert", "update"}
    /\ Respond(r, StorageUnavailable)
    /\ UNCHANGED <<checkins, now, req, found, concurrent, web, ui>>

\* POST /checkin, the insert that follows a check that found nothing.
CheckinInsert(r) ==
    /\ pc[r] = "insert"
    /\ checkins' = Append(checkins, NewRow(req[r].employee_id, req[r].client_id))
    /\ Respond(r, Created(NewRow(req[r].employee_id, req[r].client_id)))
    /\ UNCHANGED <<now, req, found, concurrent, web, ui>>

\* PUT /checkin/checkout: looks the employee's active check-in up; none is a 404.
PutCheckout(r, e) ==
    /\ IsNext(r)
    /\ req' = [req EXCEPT ![r] = [kind |-> "checkout", employee_id |-> e, client_id |-> "",
                                  latitude |-> "", longitude |-> ""]]
    /\ Meet(r, e)
    /\ LET rows == ActiveRows(e) IN
       IF rows = <<>>
       THEN /\ Respond(r, NoActiveCheckin)
            /\ UNCHANGED found
       ELSE /\ \E row \in RowsIn(rows) : found' = [found EXCEPT ![r] = row.id]
            /\ pc' = [pc EXCEPT ![r] = "update"]
            /\ UNCHANGED res
    /\ UNCHANGED <<checkins, now, web, ui>>

\* PUT /checkin/checkout, the update of the row found, by id alone.
CheckoutUpdate(r) ==
    /\ pc[r] = "update"
    /\ checkins' = CheckoutRows(found[r])
    /\ Respond(r, Ok(<<CheckoutRows(found[r])[found[r]]>>))
    /\ UNCHANGED <<now, req, found, concurrent, web, ui>>

\* GET /checkin/active answering the absence of an active row as an error.
GetActive_NoneAs404(r, e) ==
    /\ IsNext(r)
    /\ req' = [req EXCEPT ![r] = [kind |-> "active", employee_id |-> e, client_id |-> "",
                                  latitude |-> "", longitude |-> ""]]
    /\ Meet(r, e)
    /\ IF ActiveRows(e) = <<>>
       THEN Respond(r, NoActiveCheckin)
       ELSE \E row \in RowsIn(ActiveRows(e)) : Respond(r, Ok(<<row>>))
    /\ UNCHANGED <<checkins, now, found, web, ui>>

\* GET /checkin/active: the active row, or success with data null.
GetActive(r, e) ==
    /\ IsNext(r)
    /\ req' = [req EXCEPT ![r] = [kind |-> "active", employee_id |-> e, client_id |-> "",
                                  latitude |-> "", longitude |-> ""]]
    /\ Meet(r, e)
    /\ IF ActiveRows(e) = <<>>
       THEN Respond(r, Ok(<<>>))
       ELSE \E row \in RowsIn(ActiveRows(e)) : Respond(r, Ok(<<row>>))
    /\ UNCHANGED <<checkins, now, found, web, ui>>

\* GET /checkin/history: the employee's rows, most recent check-in first.
GetHistory(r, e) ==
    /\ IsNext(r)
    /\ req' = [req EXCEPT ![r] = [kind |-> "history", employee_id |-> e, client_id |-> "",
                                  latitude |-> "", longitude |-> ""]]
    /\ Meet(r, e)
    /\ Respond(r, Ok(HistoryRows(HistoryQuery(e, <<>>, <<>>))))
    /\ UNCHANGED <<checkins, now, found, web, ui>>

\* A read changes nothing a later request could see: one is followed per behaviour.
Unread == rreq = NoRead

\* The daily summary routed without requireManager.
DailySummary_NoRoleCheck(token, user, date, employee_id) ==
    /\ Unread
    /\ rreq' = [kind |-> "report", token |-> token, user |-> user, date |-> date,
                employee_id |-> employee_id, start_date |-> <<>>, end_date |-> <<>>]
    /\ IF ~Authenticated(token)
       THEN rres' = InvalidToken /\ rsql' = <<>> /\ rerr' = ""
       ELSE IF date = <<>> \/ ~MatchesDate(date)
       THEN rres' = InvalidDate /\ rsql' = <<>> /\ rerr' = ""
       ELSE /\ rsql' = <<SummaryQuery(user, date, employee_id)>>
            /\ \E error \in {""} \cup StoreErrors :
                  /\ rerr' = error
                  /\ rres' = IF error = ""
                             THEN Summary(date,
                                          SummaryRows(SummaryQuery(user, date, employee_id)))
                             ELSE ReportFailed(error)
    /\ UNCHANGED <<checkins, now, pc, req, found, res, concurrent, ui>>

\* GET /reports/daily-summary, through authenticateToken, requireManager and the
\* handler: 401 without a valid token, 403 for a user who is no manager, 400 for a
\* date that is missing or malformed, and otherwise the summary the statement returns.
DailySummary(token, user, date, employee_id) ==
    /\ Unread
    /\ rreq' = [kind |-> "report", token |-> token, user |-> user, date |-> date,
                employee_id |-> employee_id, start_date |-> <<>>, end_date |-> <<>>]
    /\ IF ~Authenticated(token)
       THEN rres' = InvalidToken /\ rsql' = <<>> /\ rerr' = ""
       ELSE IF users[user].role # "manager"
       THEN rres' = Unauthorized /\ rsql' = <<>> /\ rerr' = ""
       ELSE IF date = <<>> \/ ~MatchesDate(date)
       THEN rres' = InvalidDate /\ rsql' = <<>> /\ rerr' = ""
       ELSE /\ rsql' = <<SummaryQuery(user, date, employee_id)>>
            /\ \E error \in {""} \cup StoreErrors :
                  /\ rerr' = error
                  /\ rres' = IF error = ""
                             THEN Summary(date,
                                          SummaryRows(SummaryQuery(user, date, employee_id)))
                             ELSE ReportFailed(error)
    /\ UNCHANGED <<checkins, now, pc, req, found, res, concurrent, ui>>

\* GET /checkin/history?start_date=..&end_date=.. of employee e: the bounds given go
\* into the statement as they came.
FilterHistory(e, start_date, end_date) ==
    /\ Unread
    /\ rreq' = [kind |-> "history", token |-> "jwt", user |-> e, date |-> <<>>,
                employee_id |-> <<>>, start_date |-> start_date, end_date |-> end_date]
    /\ rsql' = <<HistoryQuery(e, start_date, end_date)>>
    /\ rres' = Ok(HistoryRows(HistoryQuery(e, start_date, end_date)))
    /\ rerr' = ""
    /\ UNCHANGED <<checkins, now, pc, req, found, res, concurrent, ui>>

\* The server clock moves on by a second.
Tick ==
    /\ now < MaxNow
    /\ now' = now + 1
    /\ UNCHANGED <<checkins, pc, req, found, res, concurrent, web, ui>>

\* No session stored: localStorage has neither token nor user.
NoSession == [token |-> "", user |-> NULL]

\* No browser is looking: nothing stored, no page open.
BrowserClosed ==
    /\ localStorage = NoSession
    /\ location = "/login"
    /\ failure = <<>>
    /\ historyPage = <<>>
    /\ checkInPage = <<>>
    /\ viewer = <<>>
    /\ shown = <<>>

\* No request has reached the backend.
NoTraffic ==
    /\ pc = [r \in Requests |-> "new"]
    /\ req = [r \in Requests |-> NoRequest]
    /\ found = [r \in Requests |-> NULL]
    /\ res = [r \in Requests |-> NoResponse]
    /\ concurrent = [r \in Requests |-> FALSE]
    /\ rreq = NoRead
    /\ rsql = <<>>
    /\ rres = NoResponse
    /\ rerr = ""

Init ==
    /\ checkins = <<>>
    /\ now = 1
    /\ pc = [r \in Requests |-> "new"]
    /\ req = [r \in Requests |-> NoRequest]
    /\ found = [r \in Requests |-> NULL]
    /\ res = [r \in Requests |-> NoResponse]
    /\ concurrent = [r \in Requests |-> FALSE]
    /\ rreq = NoRead
    /\ rsql = <<>>
    /\ rres = NoResponse
    /\ rerr = ""
    /\ BrowserClosed

Next ==
    \/ \E r \in Requests, e \in Employees, c \in ClientIds :
          \E lat \in NumericCoordinates, lng \in NumericCoordinates :
              PostCheckin(r, e, c, lat, lng)
    \/ \E r \in Requests : CheckinInsert(r)
    \/ \E r \in Requests, e \in Employees : PutCheckout(r, e)
    \/ \E r \in Requests : CheckoutUpdate(r)
    \/ \E r \in Requests, e \in Employees : GetActive(r, e)
    \/ \E r \in Requests, e \in Employees : GetHistory(r, e)
    \/ Tick

Spec == Init /\ [][Next]_vars

\* The bodies POST /checkin is tried with when its validation is explored: the valid
\* one and every body with exactly one field missing or malformed.
Bodies ==
    {b \in [client_id : ClientIds, latitude : Coordinates, longitude : Coordinates] :
        Cardinality({f \in {"client_id", "latitude", "longitude"} :
                        b[f] \notin {"c1"} \cup NumericCoordinates}) <= 1}

\* Check-ins with every kind of body, and the checkouts that close what they opened.
NextInput ==
    \/ \E r \in Requests, e \in Employees, b \in Bodies :
          PostCheckin(r, e, b.client_id, b.latitude, b.longitude)
    \/ \E r \in Requests : CheckinInsert(r)
    \/ \E r \in Requests, e \in Employees : PutCheckout(r, e)
    \/ \E r \in Requests : CheckoutUpdate(r)

SpecInput == Init /\ [][NextInput]_vars

\* Check-ins and checkouts against a store whose statements can fail.
NextFail ==
    \/ \E r \in Requests, e \in Employees :
          \E lat \in NumericCoordinates, lng \in NumericCoordinates :
              PostCheckin(r, e, "c1", lat, lng)
    \/ \E r \in Requests : CheckinInsert(r)
    \/ \E r \in Requests, e \in Employees : PutCheckout(r, e)
    \/ \E r \in Requests : CheckoutUpdate(r)
    \/ \E r \in Requests, e \in Employees, k \in {"checkin", "checkout"} :
          AbortAtCheck(r, e, k)
    \/ \E r \in Requests : Abort(r)
    \/ Tick

SpecFail == Init /\ [][NextFail]_vars

\* The rows a check-in and its checkout can have left: open since some second, or
\* closed at that second or a later one.
RowsLeft ==
    {row \in [id : {NULL}, employee_id : Employees, client_id : {"c1"},
              checkin_time : 1..MaxNow, checkout_time : 0..MaxNow,
              status : {"checked_in", "checked_out"}] :
        \/ row.status = "checked_in" /\ row.checkout_time = NULL
        \/ row.status = "checked_out" /\ row.checkout_time >= row.checkin_time}

\* The checkins tables of up to MaxRows rows: ids in insertion order, check-in times
\* never going back.
Tables ==
    UNION {{[i \in 1..n |-> [t[i] EXCEPT !.id = i]] :
               t \in {t \in [1..n -> RowsLeft] :
                          \A i \in 1..n : i > 1 => t[i - 1].checkin_time <= t[i].checkin_time}} :
           n \in 0..MaxRows}

\* The last second a table was written at (1 for the empty table).
RECURSIVE LastSecond(_)
LastSecond(t) ==
    IF t = <<>> THEN 1
    ELSE LET m == LastSecond(Tail(t))
             h == IF Head(t).checkout_time > Head(t).checkin_time
                  THEN Head(t).checkout_time ELSE Head(t).checkin_time
         IN IF h > m THEN h ELSE m

\* Dates a request can carry that are well formed: the days of the clock and the next.
GoodDates == {DateString(d) : d \in 0..((MaxNow \div SecondsPerDay) + 1)}

\* A bound of the history filter crafted to break out of a quoted SQL string.
Crafted == DateString(0) \o <<"'", "x">>

\* Dates a request can carry that are not: none, a one-digit month, slashes, a
\* trailing character.
BadDates ==
    {<<>>,
     <<"2", "0", "2", "6", "-", "1", "-", "2", "0">>,
     <<"2", "0", "2", "6", "/", "0", "1", "/", "2", "0">>,
     Append(DateString(0), "x")}

\* The daily-summary requests tried: managers with every date and employee_id, and
\* callers without a valid token or without the manager role with a good and a bad date.
ReportRequests ==
    {q \in [token : {"", "expired", "jwt"}, user : Employees \cup Managers,
            date : GoodDates \cup BadDates,
            employee_id : {<<>>} \cup {<<u>> : u \in Employees \cup {Nobody}}] :
        \/ /\ q.token = "jwt" /\ q.user \in Managers
           /\ q.date \in BadDates => q.employee_id = <<>>
        \/ /\ q.token # "jwt" \/ q.user \notin Managers
           /\ q.date \in {DateString(0), <<>>} /\ q.employee_id = <<>>}

\* What start_date and end_date are tried with: nothing, a date, a crafted string.
HistoryDates == {<<>>, Crafted} \cup GoodDates

\* The read-only endpoints over a table the check-in lifecycle has left.
InitRead ==
    /\ checkins \in Tables
    /\ now \in LastSecond(checkins)..MaxNow
    /\ pc = [r \in Requests |-> "new"]
    /\ req = [r \in Requests |-> NoRequest]
    /\ found = [r \in Requests |-> NULL]
    /\ res = [r \in Requests |-> NoResponse]
    /\ concurrent = [r \in Requests |-> FALSE]
    /\ rreq = NoRead
    /\ rsql = <<>>
    /\ rres = NoResponse
    /\ rerr = ""
    /\ BrowserClosed

NextRead ==
    \/ \E q \in ReportRequests : DailySummary(q.token, q.user, q.date, q.employee_id)
    \/ \E e \in Employees, s \in HistoryDates, t \in HistoryDates : FilterHistory(e, s, t)

SpecRead == InitRead /\ [][NextRead]_vars

\* ---------------------------------------------------------------- the browser: session and routes
\* The URLs the pages call the API with, character by character.
LoginUrl == <<"/", "a", "u", "t", "h", "/", "l", "o", "g", "i", "n">>
CheckinUrl == <<"/", "c", "h", "e", "c", "k", "i", "n">>
ActiveUrl == CheckinUrl \o <<"/", "a", "c", "t", "i", "v", "e">>
HistoryUrl == CheckinUrl \o <<"/", "h", "i", "s", "t", "o", "r", "y">>
\* error.config?.url || "": the URL of the failed call, "" when the error has no config.
Urls == {<<>>, LoginUrl, CheckinUrl, ActiveUrl, HistoryUrl}

\* error.response?.status: the status of the error response, NULL when there is none.
Statuses == {NULL, 400, 401, 403, 404, 409, 500}

\* String.prototype.includes
Includes(s, t) == \E i \in 0..(Len(s) - Len(t)) : SubSeq(s, i + 1, i + Len(t)) = t

\* The sessions localStorage can hold: none, or the token and user a login stored.
Sessions == {NoSession} \cup {[token |-> "jwt", user |-> u] : u \in Employees \cup Managers}

\* useAuth().user: the user of the stored session, NULL when nobody is logged in.
useAuth == localStorage.user

\* The routes of App.
Paths == {"/login", "/dashboard", "/checkin", "/history", "/report"}

\* Where App takes the browser asked for a path: a logged-in user away from /login,
\* everybody else to it.
Routed(user, path) ==
    IF path = "/login"
    THEN (IF user # NULL THEN "/dashboard" ELSE "/login")
    ELSE (IF user # NULL THEN path ELSE "/login")

\* The props App gives the element of the report route: <Report /> has none, so the
\* user the component destructures is undefined.
ReportProps == [user |-> NULL]

\* function Reports({ user }): what the component renders.
Reports(props) ==
    IF props.user = NULL
    THEN "Unauthorized access"
    ELSE IF users[props.user].role # "manager"
    THEN "Unauthorized access"
    ELSE "Daily Summary Report"

\* What the browser shows at its location.
Page == IF location = "/report" THEN Reports(ReportProps) ELSE location

\* The response interceptor as the bug notes have it: 401 and 403 alike log out,
\* unless the browser is on the login page.
Rejected_On403Too(status, url) ==
    /\ failure' = <<[status |-> status, url |-> url, promise |-> "rejected"]>>
    /\ IF status \in {401, 403} /\ location # "/login"
       THEN localStorage' = NoSession /\ location' = "/login"
       ELSE UNCHANGED <<localStorage, location>>
    /\ UNCHANGED <<backend, historyPage, checkInPage, viewer, shown>>

\* The response interceptor's error handler: the error of a login call is passed on;
\* of any other call a 401 removes token and user and sends the browser to /login;
\* the error is rejected to the caller on every path.
Rejected(status, url) ==
    /\ failure' = <<[status |-> status, url |-> url, promise |-> "rejected"]>>
    /\ IF Includes(url, LoginUrl)
       THEN UNCHANGED <<localStorage, location>>
       ELSE IF status = 401
       THEN localStorage' = NoSession /\ location' = "/login"
       ELSE UNCHANGED <<localStorage, location>>
    /\ UNCHANGED <<backend, historyPage, checkInPage, viewer, shown>>

\* The user follows a link of the application.
Navigate(path) ==
    /\ location' = Routed(useAuth, path)
    /\ location' # location
    /\ UNCHANGED <<backend, localStorage, failure, historyPage, checkInPage, viewer, shown>>

\* The application open in a browser, logged in or not.
InitApp ==
    /\ checkins = <<>>
    /\ now = 1
    /\ NoTraffic
    /\ localStorage \in Sessions
    /\ location \in {Routed(localStorage.user, path) : path \in Paths}
    /\ failure = <<>>
    /\ historyPage = <<>>
    /\ checkInPage = <<>>
    /\ viewer = <<>>
    /\ shown = <<>>

NextApp ==
    \/ \E status \in Statuses, url \in Urls : Rejected(status, url)
    \/ \E path \in Paths : Navigate(path)

SpecApp == InitApp /\ [][NextApp]_vars

\* ---------------------------------------------------------------- the History page
\* getTodayLocal(): the date of today where the browser is.
todayLocal == DATE(now)

\* The values a date input hands to onChange: "" when it is emptied, or a date. The
\* min and max attributes bound what the date picker offers and what the form accepts
\* on submit; a date typed into the field reaches onChange whatever they are.
DateInputs == {<<>>} \cup GoodDates

\* The History page after its first render: nothing to show, loading, no filter, and
\* the fetchHistory of the mount effect in flight.
HistoryMounted ==
    [checkins |-> <<>>, loading |-> TRUE, error |-> "", startDate |-> <<>>,
     endDate |-> <<>>,
     request |-> <<[by |-> "mount", start_date |-> <<>>, end_date |-> <<>>]>>,
     event |-> "mount", alerted |-> FALSE, answered |-> ""]

\* The page renders the filter form: it is neither loading nor showing an error.
FormShown == ~historyPage.loading /\ historyPage.error = ""

\* The form passes the browser's validation of max and min when it is submitted.
FormValid ==
    /\ historyPage.startDate # <<>> => LessEq(historyPage.startDate, todayLocal)
    /\ historyPage.endDate # <<>>
       => /\ LessEq(historyPage.endDate, todayLocal)
          /\ historyPage.startDate # <<>>
             => LessEq(historyPage.startDate, historyPage.endDate)

\* fetchHistory: the request built from the dates of the state, each sent if not empty.
fetchHistory(by, startDate, endDate) ==
    <<[by |-> by, start_date |-> startDate, end_date |-> endDate]>>

\* onChange of the start date: the end date is emptied when the new start is after it.
ChangeStartDate(value) ==
    /\ FormShown
    /\ historyPage' =
          [historyPage EXCEPT
              !.startDate = value,
              !.endDate = IF historyPage.endDate # <<>> /\ ~LessEq(value, historyPage.endDate)
                          THEN <<>> ELSE historyPage.endDate,
              !.event = "start", !.alerted = FALSE]
    /\ UNCHANGED <<backend, localStorage, location, failure, checkInPage, viewer, shown>>

\* onChange of the end date.
ChangeEndDate(value) ==
    /\ FormShown
    /\ historyPage' = [historyPage EXCEPT !.endDate = value, !.event = "end",
                                           !.alerted = FALSE]
    /\ UNCHANGED <<backend, localStorage, location, failure, checkInPage, viewer, shown>>

\* handleFilter without its test of the two dates.
handleFilter_NoGuard ==
    /\ FormShown
    /\ FormValid
    /\ historyPage' =
          [historyPage EXCEPT
              !.loading = TRUE,
              !.request = fetchHistory("filter", historyPage.startDate, historyPage.endDate),
              !.event = "filter", !.alerted = FALSE]
    /\ UNCHANGED <<backend, localStorage, location, failure, checkInPage, viewer, shown>>

\* handleFilter, the submit of the form: an alert and nothing else unless both dates
\* are set, else loading and fetchHistory.
handleFilter ==
    /\ FormShown
    /\ FormValid
    /\ IF historyPage.startDate = <<>> \/ historyPage.endDate = <<>>
       THEN historyPage' = [historyPage EXCEPT !.event = "filter", !.alerted = TRUE]
       ELSE historyPage' =
               [historyPage EXCEPT
                   !.loading = TRUE,
                   !.request = fetchHistory("filter", historyPage.startDate,
                                            historyPage.endDate),
                   !.event = "filter", !.alerted = FALSE]
    /\ UNCHANGED <<backend, localStorage, location, failure, checkInPage, viewer, shown>>

\* Clear as it was before the fix: it always refetches, with fetchHistory reading the
\* dates of the render that was clicked.
Clear_StaleState ==
    /\ FormShown
    /\ historyPage' =
          [historyPage EXCEPT
              !.startDate = <<>>, !.endDate = <<>>, !.loading = TRUE,
              !.request = fetchHistory("clear", historyPage.startDate, historyPage.endDate),
              !.event = "clear", !.alerted = FALSE]
    /\ UNCHANGED <<backend, localStorage, location, failure, checkInPage, viewer, shown>>

\* onClick of Clear: both dates are emptied; if both were set, loading and a request
\* for /checkin/history without parameters.
Clear ==
    /\ FormShown
    /\ IF historyPage.startDate # <<>> /\ historyPage.endDate # <<>>
       THEN historyPage' =
               [historyPage EXCEPT
                   !.startDate = <<>>, !.endDate = <<>>, !.loading = TRUE,
                   !.request = <<[by |-> "clear", start_date |-> <<>>, end_date |-> <<>>]>>,
                   !.event = "clear", !.alerted = FALSE]
       ELSE historyPage' =
               [historyPage EXCEPT
                   !.startDate = <<>>, !.endDate = <<>>,
                   !.event = "clear", !.alerted = FALSE]
    /\ UNCHANGED <<backend, localStorage, location, failure, checkInPage, viewer, shown>>

\* The request in flight settles: with the rows the history statement returns, which
\* the page then shows, or with a failure, which it shows instead; loading ends.
HistorySettles(ok) ==
    /\ historyPage.request # <<>>
    /\ LET q == historyPage.request[1] IN
       historyPage' =
          [historyPage EXCEPT
              !.checkins = IF ok
                           THEN HistoryRows(HistoryQuery(useAuth, q.start_date, q.end_date))
                           ELSE historyPage.checkins,
              !.error = IF ok THEN historyPage.error ELSE "Failed to load history",
              !.loading = FALSE,
              !.request = <<>>,
              !.event = "response", !.alerted = FALSE, !.answered = q.by]
    /\ UNCHANGED <<backend, localStorage, location, failure, checkInPage, viewer, shown>>

\* An employee opens the History page over a table of their check-ins.
InitHistory ==
    /\ checkins \in Tables
    /\ now \in LastSecond(checkins)..MaxNow
    /\ NoTraffic
    /\ localStorage \in {[token |-> "jwt", user |-> e] : e \in Employees}
    /\ \A i \in Ids : checkins[i].employee_id = localStorage.user
    /\ location = "/history"
    /\ failure = <<>>
    /\ historyPage = HistoryMounted
    /\ checkInPage = <<>>
    /\ viewer = <<>>
    /\ shown = <<>>

NextHistory ==
    \/ \E value \in DateInputs : ChangeStartDate(value)
    \/ \E value \in DateInputs : ChangeEndDate(value)
    \/ handleFilter
    \/ Clear
    \/ \E ok \in BOOLEAN : HistorySettles(ok)

SpecHistory == InitHistory /\ [][NextHistory]_vars

\* ---------------------------------------------------------------- stored times on the pages
\* Days of January 2026 a stored timestamp is tried on.
MaxDay == 2
MinutesPerDay == 24 * 60

\* Stored timestamps, "2026-01-DD HH:MM:00": UTC, written without a zone marker.
StoredTimes ==
    [day : 1..MaxDay, minute : {0, 9 * 60 + 15, 20 * 60, 23 * 60 + 59}, marker : {""}]

\* Minutes the browser's zone is ahead of UTC: New York, London, Kolkata in January.
Offsets == {-300, 0, 330}

\* What the engines make of a date-time string that is not in ISO format: Chrome,
\* Firefox and Node read it as local time, others give Invalid Date.
Engines == {"local", "invalid"}

\* utcString.replace(' ', 'T') + 'Z'
ToIso(utcString) == [utcString EXCEPT !.marker = "Z"]

\* new Date(string): the instant in minutes, or none for Invalid Date. A string ending
\* in Z is UTC; without a marker the ISO form is local time and any other form is up
\* to the engine.
NewDate(string, iso, offset, engine) ==
    LET minutes == string.day * MinutesPerDay + string.minute IN
    IF string.marker = "Z" THEN <<minutes>>
    ELSE IF iso \/ engine = "local" THEN <<minutes - offset>>
    ELSE <<>>

\* parseUtcToLocal
parseUtcToLocal(utcString, offset, engine) == NewDate(ToIso(utcString), TRUE, offset, engine)

\* toLocaleString, toLocaleTimeString: day, hour and minute on the browser's clock.
toLocaleString(date, offset) ==
    IF date = <<>> THEN [day |-> 0, hour |-> 0, minute |-> 0, text |-> "Invalid Date"]
    ELSE LET local == date[1] + offset IN
         [day |-> local \div MinutesPerDay, hour |-> (local % MinutesPerDay) \div 60,
          minute |-> local % 60, text |-> ""]

\* A row of the History page: formatLocalTime(parseUtcToLocal(checkin.checkin_time)).
RenderHistoryRow(engine) ==
    /\ shown.history = <<>>
    /\ shown' = [shown EXCEPT !.history =
                    <<toLocaleString(parseUtcToLocal(viewer.stored, viewer.offset, engine),
                                     viewer.offset)>>]
    /\ UNCHANGED <<backend, localStorage, location, failure, historyPage, checkInPage,
                   viewer>>

\* The active check-in card of the CheckIn page:
\* Since: new Date(activeCheckin.checkin_time).toLocaleString()
RenderActiveCard(engine) ==
    /\ shown.checkIn = <<>>
    /\ shown' = [shown EXCEPT !.checkIn =
                    <<toLocaleString(NewDate(viewer.stored, FALSE, viewer.offset, engine),
                                     viewer.offset)>>]
    /\ UNCHANGED <<backend, localStorage, location, failure, historyPage, checkInPage,
                   viewer>>

\* A stored check-in time and a browser somewhere, nothing rendered yet.
InitTimes ==
    /\ checkins = <<>>
    /\ now = 1
    /\ NoTraffic
    /\ localStorage = NoSession
    /\ location = "/login"
    /\ failure = <<>>
    /\ historyPage = <<>>
    /\ checkInPage = <<>>
    /\ viewer \in [stored : StoredTimes, offset : Offsets]
    /\ shown = [history |-> <<>>, checkIn |-> <<>>]

NextTimes ==
    \/ \E engine \in Engines : RenderHistoryRow(engine)
    \/ \E engine \in Engines : RenderActiveCard(engine)

SpecTimes == InitTimes /\ [][NextTimes]_vars

\* ---------------------------------------------------------------- the CheckIn page
\* The CheckIn page after its first render: loading, no active check-in known, and the
\* fetchData of the mount effect in flight.
CheckInMounted ==
    [activeCheckin |-> <<>>, loading |-> TRUE, submitting |-> FALSE, error |-> "",
     success |-> "", selectedClient |-> "", location |-> FALSE,
     requests |-> <<>>,
     fetches |-> <<[cause |-> "mount", arrived |-> 0, alone |-> FALSE]>>,
     event |-> "mount", cause |-> "", fetched |-> FALSE, fresh |-> FALSE]

\* Requests that have reached the backend so far.
Arrived == Cardinality({r \in Requests : pc[r] # "new"})

\* The number under which a request sent now will reach the backend: after those that
\* have, and after those of the page still on their way.
NextSlot ==
    Arrived + 1
    + Cardinality({i \in DOMAIN checkInPage.requests :
                      pc[checkInPage.requests[i].slot] = "new"})

\* The page renders the check-in form / the active check-in card.
CheckInFormShown == ~checkInPage.loading /\ checkInPage.activeCheckin = <<>>
ActiveCardShown == ~checkInPage.loading /\ checkInPage.activeCheckin # <<>>

\* s without its i-th element.
Without(s, i) == SubSeq(s, 1, i - 1) \o SubSeq(s, i + 1, Len(s))

\* onChange of the client select.
SelectClient(c) ==
    /\ CheckInFormShown
    /\ checkInPage.selectedClient # c
    /\ checkInPage' = [checkInPage EXCEPT !.selectedClient = c, !.event = "select"]
    /\ UNCHANGED <<backend, localStorage, location, failure, historyPage, viewer, shown>>

\* getCurrentLocation: the browser's position, or the default one, is set.
getCurrentLocation ==
    /\ ~checkInPage.location
    /\ checkInPage' = [checkInPage EXCEPT !.location = TRUE, !.event = "location"]
    /\ UNCHANGED <<backend, localStorage, location, failure, historyPage, viewer, shown>>

\* handleCheckOut behind a button that is not disabled while submitting.
handleCheckOut_NotDisabled ==
    /\ ActiveCardShown
    /\ NextSlot \in Requests
    /\ checkInPage' =
          [checkInPage EXCEPT
              !.error = "", !.success = "", !.submitting = TRUE,
              !.requests = Append(@, [kind |-> "checkout", slot |-> NextSlot,
                                      client_id |-> "", alone |-> InFlight = {}]),
              !.event = "checkout"]
    /\ UNCHANGED <<backend, localStorage, location, failure, historyPage, viewer, shown>>

\* handleCheckIn, the submit of the form, whose button is disabled while submitting or
\* without a client or a location: the messages are cleared, submitting is set and
\* POST /checkin is sent.
handleCheckIn ==
    /\ CheckInFormShown
    /\ ~checkInPage.submitting
    /\ checkInPage.selectedClient # ""
    /\ checkInPage.location
    /\ NextSlot \in Requests
    /\ checkInPage' =
          [checkInPage EXCEPT
              !.error = "", !.success = "", !.submitting = TRUE,
              !.requests = Append(@, [kind |-> "checkin", slot |-> NextSlot,
                                      client_id |-> checkInPage.selectedClient,
                                      alone |-> InFlight = {}]),
              !.event = "checkin"]
    /\ UNCHANGED <<backend, localStorage, location, failure, historyPage, viewer, shown>>

\* handleCheckOut, the click on Check Out, disabled while submitting: the messages
\* are cleared, submitting is set and PUT /checkin/checkout is sent.
handleCheckOut ==
    /\ ActiveCardShown
    /\ ~checkInPage.submitting
    /\ NextSlot \in Requests
    /\ checkInPage' =
          [checkInPage EXCEPT
              !.error = "", !.success = "", !.submitting = TRUE,
              !.requests = Append(@, [kind |-> "checkout", slot |-> NextSlot,
                                      client_id |-> "", alone |-> InFlight = {}]),
              !.event = "checkout"]
    /\ UNCHANGED <<backend, localStorage, location, failure, historyPage, viewer, shown>>

\* A request of the page reaches the backend.
PageRequestArrives(i) ==
    LET q == checkInPage.requests[i] IN
    IF q.kind = "checkin"
    THEN \E lat \in NumericCoordinates, lng \in NumericCoordinates :
            PostCheckin(q.slot, useAuth, q.client_id, lat, lng)
    ELSE PutCheckout(q.slot, useAuth)

\* No request of the page is on its way under number r.
Elsewhere(r) == \A i \in DOMAIN checkInPage.requests : checkInPage.requests[i].slot # r

\* The await of handleCheckIn / handleCheckOut ends, with the response of the backend
\* or without one (lost). A 2xx response resolves, any other rejects; on success the
\* page sets its message and calls fetchData, else sets the error; submitting ends.
RequestSettles(i, lost) ==
    /\ i \in DOMAIN checkInPage.requests
    /\ pc[checkInPage.requests[i].slot] = "done"
    /\ LET q == checkInPage.requests[i]
           x == res[q.slot]
           resolved == ~lost /\ x.status \in {200, 201}
           failed == IF q.kind = "checkin" THEN "Check-in failed" ELSE "Checkout failed"
       IN checkInPage' =
             [checkInPage EXCEPT
                 !.requests = Without(@, i),
                 !.submitting = FALSE,
                 !.success = IF resolved /\ x.success
                             THEN (IF q.kind = "checkin" THEN "Checked in successfully!"
                                   ELSE "Checked out successfully!")
                             ELSE @,
                 !.error = IF resolved /\ x.success THEN @
                           ELSE IF lost THEN failed
                           ELSE x.message,
                 !.selectedClient = IF resolved /\ x.success /\ q.kind = "checkin"
                                    THEN "" ELSE @,
                 !.fetches = IF resolved /\ x.success
                             THEN Append(@, [cause |-> q.kind, arrived |-> Arrived,
                                             alone |-> q.alone /\ Arrived = q.slot])
                             ELSE @,
                 !.event = "settled",
                 !.cause = q.kind,
                 !.fetched = resolved /\ x.success]
    /\ UNCHANGED <<backend, localStorage, location, failure, historyPage, viewer, shown>>

\* A fetchData ends: with the answer of GET /checkin/active, the employee's active
\* check-in or null, which becomes activeCheckin; or with a failure, which becomes
\* the error; loading ends.
FetchSettles(i, ok) ==
    /\ i \in DOMAIN checkInPage.fetches
    /\ \E data \in (IF ActiveRows(useAuth) = <<>> THEN {<<>>}
                    ELSE {<<row>> : row \in RowsIn(ActiveRows(useAuth))}) :
          checkInPage' =
             [checkInPage EXCEPT
                 !.fetches = Without(@, i),
                 !.activeCheckin = IF ok THEN data ELSE @,
                 !.error = IF ok THEN @ ELSE "Failed to load data",
                 !.loading = FALSE,
                 !.event = "fetched",
                 !.cause = checkInPage.fetches[i].cause,
                 !.fetched = ok,
                 !.fresh = /\ checkInPage.fetches[i].alone
                           /\ checkInPage.fetches[i].arrived = Arrived]
    /\ UNCHANGED <<backend, localStorage, location, failure, historyPage, viewer, shown>>

\* An employee opens the CheckIn page; nothing has been checked in yet.
InitCheckIn ==
    /\ checkins = <<>>
    /\ now = 1
    /\ NoTraffic
    /\ localStorage \in {[token |-> "jwt", user |-> e] : e \in Employees}
    /\ location = "/checkin"
    /\ failure = <<>>
    /\ historyPage = <<>>
    /\ checkInPage = CheckInMounted
    /\ viewer = <<>>
    /\ shown = <<>>

\* The page, the backend serving it, and the same employee's requests from elsewhere.
NextCheckIn ==
    \/ \E c \in ClientIds : SelectClient(c)
    \/ getCurrentLocation
    \/ handleCheckIn
    \/ handleCheckOut
    \/ \E i \in DOMAIN checkInPage.requests : PageRequestArrives(i)
    \/ \E r \in Requests, lat \in NumericCoordinates, lng \in NumericCoordinates :
          Elsewhere(r) /\ PostCheckin(r, useAuth, "c1", lat, lng)
    \/ \E r \in Requests : Elsewhere(r) /\ PutCheckout(r, useAuth)
    \/ \E r \in Requests : CheckinInsert(r)
    \/ \E r \in Requests : CheckoutUpdate(r)
    \/ \E i \in 1..MaxReq, lost \in BOOLEAN : RequestSettles(i, lost)
    \/ \E i \in 1..(MaxReq + 1), ok \in BOOLEAN : FetchSettles(i, ok)

SpecCheckIn == InitCheckIn /\ [][NextCheckIn]_vars

\* ---------------------------------------------------------------- properties
\* Number of rows of table t that are employee e's open check-ins.
OpenIn(t, e) ==
    Cardinality({i \in DOMAIN t : t[i].employee_id = e /\ t[i].status = "checked_in"})

\* The requests of employee e that have reached the store so far.
SoFar(e) == {r \in Requests : pc[r] # "new" /\ req[r].employee_id = e}

\* Request r takes a step.
Steps(r) == pc'[r] # pc[r]

\* POST /checkin with a body that passes validation.
ValidCheckin(q) ==
    q.kind = "checkin" /\ q.client_id # "" /\ ValidLocation(q.latitude, q.longitude)

\* C1: in every reachable state, whatever the interleaving of check-in and checkout
\* requests, every employee has at most one row with status 'checked_in'.
C1_AtMostOneOpen == \A e \in Employees : OpenIn(checkins, e) <= 1

\* C2: when the only requests of an employee (who therefore had no open check-in) are
\* N >= 2 valid check-ins that ran concurrently, and all have finished, exactly one
\* got 201, the others got 409, and the employee has exactly one open row.
C2_ExactlyOneCheckinWins ==
    \A e \in Employees :
        (/\ Cardinality(SoFar(e)) >= 2
         /\ \A r \in SoFar(e) : ValidCheckin(req[r]) /\ pc[r] = "done" /\ concurrent[r])
        => /\ Cardinality({r \in SoFar(e) : res[r].status = 201}) = 1
           /\ \A r \in SoFar(e) : res[r].status \in {201, 409}
           /\ OpenIn(checkins, e) = 1

\* C3: when an employee's requests are one check-in that succeeded on its own and then
\* two checkouts that ran concurrently, and all have finished, exactly one checkout got
\* 200 and the other the no-active-check-in response, and the row was closed by one
\* call only.
C3_ExactlyOneCheckoutWins ==
    \A e \in Employees :
        \A a, b, c \in SoFar(e) :
            (/\ SoFar(e) = {a, b, c} /\ a < b /\ b < c
             /\ \A r \in {a, b, c} : pc[r] = "done"
             /\ ValidCheckin(req[a]) /\ res[a].status = 201 /\ ~concurrent[a]
             /\ req[b].kind = "checkout" /\ req[c].kind = "checkout"
             /\ concurrent[b] /\ concurrent[c])
            => /\ {res[b].status, res[c].status} = {200, NoActiveCheckin.status}
               /\ Cardinality({r \in {b, c} : found[r] = res[a].data[1].id}) = 1
               /\ OpenIn(checkins, e) = 0

\* C4: a valid POST /checkin goes on to create a row iff the employee has no open
\* check-in when it is called, and the insert takes the employee from no open check-in
\* to exactly one: one new row, open, checked in now, every existing row untouched.
C4_CheckinCreatesIffNoneOpen ==
    [][\A r \in Requests :
          /\ (pc[r] = "new" /\ Steps(r) /\ ValidCheckin(req'[r]))
             => (pc'[r] = "insert" <=> OpenIn(checkins, req'[r].employee_id) = 0)
          /\ (pc[r] = "insert" /\ Steps(r))
             => /\ OpenIn(checkins, req[r].employee_id) = 0
                /\ OpenIn(checkins', req[r].employee_id) = 1
                /\ Len(checkins') = Len(checkins) + 1
                /\ SubSeq(checkins', 1, Len(checkins)) = checkins
                /\ checkins'[Len(checkins')].status = "checked_in"
                /\ checkins'[Len(checkins')].checkin_time = now
                /\ res'[r].status = 201]_vars

\* C5: a valid POST /checkin called while the employee holds an open check-in is
\* answered 409 (never 400 or 200), without success, and changes no row.
C5_ConflictIs409 ==
    [][\A r \in Requests :
          (/\ pc[r] = "new" /\ Steps(r) /\ ValidCheckin(req'[r])
           /\ OpenIn(checkins, req'[r].employee_id) >= 1)
          => /\ pc'[r] = "done"
             /\ res'[r].status = 409
             /\ res'[r].success = FALSE
             /\ checkins' = checkins]_vars

C5_Witness ==
    \E r \in Requests :
        /\ pc[r] = "done" /\ ValidCheckin(req[r]) /\ res[r].status = 409
        /\ OpenIn(checkins, req[r].employee_id) >= 1

\* C6: PUT /checkin/checkout called while the employee has no open check-in (never
\* checked in, or already checked out) gets the no-active-check-in answer, changes no
\* row and leaves the employee without an open check-in.
C6_CheckoutWithoutActive ==
    [][\A r \in Requests :
          (/\ pc[r] = "new" /\ Steps(r) /\ req'[r].kind = "checkout"
           /\ OpenIn(checkins, req'[r].employee_id) = 0)
          => /\ pc'[r] = "done"
             /\ res'[r] = NoActiveCheckin
             /\ res'[r].success = FALSE
             /\ checkins' = checkins
             /\ OpenIn(checkins', req'[r].employee_id) = 0]_vars

\* A checkout refused for an employee whose only check-in is already checked out.
C6_Witness ==
    \E r \in Requests :
        /\ pc[r] = "done" /\ req[r].kind = "checkout" /\ res[r] = NoActiveCheckin
        /\ RowsOf(req[r].employee_id) # <<>>
        /\ OpenIn(checkins, req[r].employee_id) = 0

\* Request r has reached the store and is a request of employee e.
Of(e, r) == pc[r] # "new" /\ req[r].employee_id = e

\* b is the request of employee e that follows a, with no request of e in between.
Follows(e, a, b) ==
    /\ a < b /\ Of(e, a) /\ Of(e, b)
    /\ \A q \in Requests : (a < q /\ q < b) => ~Of(e, q)

\* r is the last request of employee e so far.
Last(e, r) == \A q \in Requests : q > r => ~Of(e, q)

\* Request r ran to its end with no other request of its employee running meanwhile.
Alone(r) == pc[r] = "done" /\ ~concurrent[r]

\* a is a check-in that succeeded and b the checkout that succeeded right after it.
RoundTrip(a, b) ==
    /\ Alone(a) /\ res[a].status = 201
    /\ Alone(b) /\ res[b].status = 200 /\ req[b].kind = "checkout"
    /\ Follows(req[a].employee_id, a, b)

\* C7: after a check-in that succeeded and a checkout that succeeded right after it
\* (no other request of the employee in between), the employee has no open check-in:
\* GET /checkin/active then answers success with data null, and a further valid
\* POST /checkin gets 201 for a new row, the closed row staying closed as it was.
C7_RoundTripEndsNoActive ==
    \A a, b \in Requests :
        RoundTrip(a, b)
        => LET e == req[a].employee_id IN
           /\ Last(e, b) => ActiveRows(e) = <<>>
           /\ \A c \in Requests :
                 (Alone(c) /\ Follows(e, b, c))
                 => /\ req[c].kind = "active" => res[c] = Ok(<<>>)
                    /\ ValidCheckin(req[c])
                       => /\ res[c].status = 201
                          /\ res[c].data[1].id # res[a].data[1].id
                          /\ res[c].data[1].status = "checked_in"
                          /\ Last(e, c)
                             => /\ checkins[res[a].data[1].id] = res[b].data[1]
                                /\ checkins[res[c].data[1].id] = res[c].data[1]

\* A round trip followed by a check-in that created a second row.
C7_Witness ==
    \E a, b, c \in Requests :
        /\ RoundTrip(a, b) /\ Alone(c) /\ Follows(req[a].employee_id, b, c)
        /\ ValidCheckin(req[c]) /\ res[c].status = 201
        /\ Len(RowsOf(req[a].employee_id)) = 2

\* C8 as stated: every closed row has checkout_time strictly after checkin_time.
C8_CheckoutStrictlyLater ==
    \A i \in Ids :
        checkins[i].status = "checked_out"
        => checkins[i].checkout_time > checkins[i].checkin_time

\* C8, amended: every closed row has a checkout_time, and it is not before the
\* checkin_time; the two are equal when both fall in the same second.
C8_CheckoutNotEarlier ==
    \A i \in Ids :
        checkins[i].status = "checked_out"
        => /\ checkins[i].checkout_time # NULL
           /\ checkins[i].checkout_time >= checkins[i].checkin_time

\* A row closed by a checkout in the very second of its check-in.
C8_Witness ==
    \E r \in Requests : \E i \in Ids :
        /\ pc[r] = "done" /\ req[r].kind = "checkout" /\ found[r] = i
        /\ checkins[i].status = "checked_out"
        /\ checkins[i].checkout_time = checkins[i].checkin_time

\* C9: a row is created open with checkout_time null, and once it is closed it never
\* changes again; no row is ever removed.
C9_RowLifecycleMonotonic ==
    [][/\ Len(checkins') >= Len(checkins)
       /\ \A i \in Ids :
             /\ checkins'[i].id = checkins[i].id
             /\ checkins[i].status = "checked_out" => checkins'[i] = checkins[i]
       /\ \A i \in DOMAIN checkins' \ Ids :
             checkins'[i].status = "checked_in" /\ checkins'[i].checkout_time = NULL]_vars

\* C10: a step of a request of employee X changes no row of another employee; a
\* row's checkout_time changes only in a step of a checkout request of the row's own
\* employee, and reads (active, history) change no row at all.
C10_OtherEmployeesUntouched ==
    [][\A r \in Requests :
          Steps(r)
          => /\ \A i \in Ids :
                   checkins[i].employee_id # req'[r].employee_id
                   => checkins'[i] = checkins[i]
             /\ \A i \in Ids :
                   checkins'[i].checkout_time # checkins[i].checkout_time
                   => /\ req'[r].kind = "checkout"
                      /\ req'[r].employee_id = checkins[i].employee_id
             /\ \A i \in DOMAIN checkins' \ Ids :
                   checkins'[i].employee_id = req'[r].employee_id
             /\ req'[r].kind \in {"active", "history"} => checkins' = checkins]_vars

\* A checkout of one employee done while another employee has a row of their own.
C10_Witness ==
    \E r \in Requests : \E i \in Ids :
        /\ pc[r] = "done" /\ req[r].kind = "checkout" /\ res[r].status = 200
        /\ checkins[i].employee_id # req[r].employee_id
        /\ checkins[i].status = "checked_in"

\* C11: a valid POST /checkin that loses to an open check-in of its employee gets the
\* same answer, AlreadyCheckedIn with status 409, whether the open row is met by the
\* existence check or only by the insert that follows it; the lost insert is never
\* answered as a storage failure (500) and adds no row.
C11_ConflictSameOnBothPaths ==
    [][\A r \in Requests :
          (/\ pc[r] \in {"new", "insert"} /\ Steps(r) /\ ValidCheckin(req'[r])
           /\ OpenIn(checkins, req'[r].employee_id) >= 1)
          => /\ res'[r] = AlreadyCheckedIn
             /\ res'[r].status # 500
             /\ checkins' = checkins]_vars

\* C12: POST /checkin with a missing or empty client_id, or with a latitude or
\* longitude that is missing or not a number, is answered 400 without success (never
\* 200) at once, and no row is created or changed, whether the employee has an open
\* check-in, only closed ones, or none.
C12_InvalidInputIs400 ==
    [][\A r \in Requests :
          (/\ pc[r] = "new" /\ Steps(r) /\ req'[r].kind = "checkin"
           /\ \/ req'[r].client_id = ""
              \/ req'[r].latitude \notin NumericCoordinates
              \/ req'[r].longitude \notin NumericCoordinates)
          => /\ pc'[r] = "done"
             /\ res'[r].status = 400
             /\ res'[r].success = FALSE
             /\ checkins' = checkins]_vars

\* A body without client_id and a body with a malformed longitude, both refused while
\* the employee holds an open check-in.
C12_Witness ==
    \E r, q \in Requests :
        /\ res[r] = ClientIdRequired /\ res[q] = LocationRequired
        /\ req[q].longitude = "abc"
        /\ req[q].employee_id = req[r].employee_id
        /\ OpenIn(checkins, req[r].employee_id) = 1

\* A row is whole: open with no checkout_time, or closed with one.
Whole(row) ==
    \/ row.status = "checked_in" /\ row.checkout_time = NULL
    \/ row.status = "checked_out" /\ row.checkout_time # NULL

\* C13: when a check-in or checkout request is aborted at any of its statements, the
\* table is left as it was, with no open row or exactly one open row for the request's
\* employee, and with every row whole (no closed row without checkout_time, no open
\* row with one).
C13_AbortLeavesValidState ==
    [][\A r \in Requests :
          (Steps(r) /\ res'[r] = StorageUnavailable)
          => /\ checkins' = checkins
             /\ OpenIn(checkins', req'[r].employee_id) <= 1
             /\ \A i \in DOMAIN checkins' : Whole(checkins'[i])]_vars

\* C14: GET /checkin/active is answered in one step with 200 and success, never with
\* an error or 404: with no open row of the employee the payload is empty, with one
\* open row the payload is that row, and in every case a row returned is an open row
\* of that employee; the table is not changed.
C14_ActiveIsRowOrNone ==
    [][\A r \in Requests :
          (pc[r] = "new" /\ Steps(r) /\ req'[r].kind = "active")
          => LET e == req'[r].employee_id IN
             /\ pc'[r] = "done"
             /\ res'[r].status = 200 /\ res'[r].success = TRUE
             /\ checkins' = checkins
             /\ OpenIn(checkins, e) = 0 <=> res'[r].data = <<>>
             /\ OpenIn(checkins, e) = 1 => res'[r].data = ActiveRows(e)
             /\ Len(res'[r].data) <= 1
             /\ \A i \in DOMAIN res'[r].data :
                   /\ res'[r].data[i].employee_id = e
                   /\ res'[r].data[i].status = "checked_in"
                   /\ res'[r].data[i] \in RowsIn(checkins)]_vars

\* One employee asked for their open check-in and got it, another got none.
C14_Witness ==
    \E r, q \in Requests :
        /\ pc[r] = "done" /\ req[r].kind = "active" /\ Len(res[r].data) = 1
        /\ res[r].data[1].employee_id = req[r].employee_id
        /\ pc[q] = "done" /\ req[q].kind = "active" /\ res[q] = Ok(<<>>)

\* The request read was a daily summary that got past authentication, the role check
\* and the date validation.
Reported == rreq.kind = "report" /\ rres.status = 200

\* The employees of manager m.
TeamOf(m) == {u \in Employees : users[u].manager_id = m}

\* Employee u has a check-in on the date.
CheckedInOn(u, date) ==
    \E i \in Ids : checkins[i].employee_id = u /\ DATE(checkins[i].checkin_time) = date

\* C15: GET /checkin/history with both bounds given, where end_date is before
\* start_date or either bound is after the server's current date, is answered 400
\* without success and executes no statement on the store.
C15_BadRangeIs400 ==
    (/\ rreq.kind = "history" /\ rreq.start_date # <<>> /\ rreq.end_date # <<>>
     /\ \/ ~LessEq(rreq.start_date, rreq.end_date)
        \/ ~LessEq(rreq.start_date, DATE(now))
        \/ ~LessEq(rreq.end_date, DATE(now)))
    => /\ rres.status = 400
       /\ rres.success = FALSE
       /\ rsql = <<>>

\* C16: a daily summary for a valid date on which no employee of the manager has a
\* check-in is answered with employees = [] and all four team totals 0, also when
\* some of those employees have no check-in at all.
C16_NoCheckinsIsEmptyReport ==
    (/\ Reported
     /\ \A u \in TeamOf(rreq.user) : ~CheckedInOn(u, rreq.date))
    => /\ rres.success = TRUE
       /\ rres.data[1].employees = <<>>
       /\ rres.data[1].team_stats =
             [total_employees |-> 0, total_checkins |-> 0, total_minutes |-> 0,
              total_clients |-> 0]

\* C17: a daily summary asked without employee_id lists every user whose manager_id
\* is the requesting manager, also the employees whose check-ins are all on other
\* dates.
C17_EveryEmployeeListed ==
    (Reported /\ rreq.employee_id = <<>>)
    => \A u \in TeamOf(rreq.user) :
          \E i \in DOMAIN rres.data[1].employees :
              rres.data[1].employees[i].employee_id = u

\* C18: the daily-summary statement is executed only for a request that passed
\* authentication and then the manager-role check; a request without a valid token
\* is turned away by authentication (401) whatever its user, a valid token of a user
\* who is no manager by the role check, and neither executes a statement nor gets
\* report data.
C18_QueryOnlyForManagers ==
    rreq.kind = "report"
    => /\ rsql # <<>>
          => Authenticated(rreq.token) /\ users[rreq.user].role = "manager"
       /\ ~Authenticated(rreq.token)
          => rres.status = 401
       /\ (~Authenticated(rreq.token) \/ users[rreq.user].role # "manager")
          => /\ rres.status \in {401, 403}
             /\ rres.success = FALSE
             /\ rres.data = <<>>
             /\ rsql = <<>>

\* An employee with a valid token asked for the report and was turned away.
C18_Witness ==
    /\ rreq.kind = "report" /\ Authenticated(rreq.token)
    /\ users[rreq.user].role = "employee"
    /\ MatchesDate(rreq.date)
    /\ rres = Unauthorized /\ rsql = <<>>

\* C19: a daily summary asked by a manager with no date, or with a date that is not
\* exactly four digits, dash, two digits, dash, two digits, is answered 400, success
\* false, "Invalid or missing date (YYYY-MM-DD required)", and executes no statement;
\* a date of that form is not refused.
C19_BadDateIs400 ==
    (/\ rreq.kind = "report" /\ Authenticated(rreq.token)
     /\ users[rreq.user].role = "manager")
    => /\ rreq.date \in BadDates
          => /\ rres.status = 400
             /\ rres.success = FALSE
             /\ rres.message = "Invalid or missing date (YYYY-MM-DD required)"
             /\ rsql = <<>>
       /\ rreq.date \in GoodDates => rres.status # 400 /\ Len(rsql) = 1

\* A date with a trailing character was refused.
C19_Witness ==
    /\ rreq.kind = "report" /\ users[rreq.user].role = "manager"
    /\ rreq.date = Append(DateString(0), "x")
    /\ rres = InvalidDate /\ rsql = <<>>

\* C20: the text of the statement a daily summary or a history request executes is the
\* text any request of that kind executes that gives the same parameters with other
\* values; the values are in the params, in the order of their placeholders, and
\* nowhere else.
C20_QueryTextFixed ==
    /\ (rreq.kind = "report" /\ rsql # <<>>)
       => /\ Len(rsql) = 1
          /\ \A date \in GoodDates, id \in Employees \cup {Nobody} :
                SummaryQuery(rreq.user, date,
                             IF rreq.employee_id = <<>> THEN <<>> ELSE <<id>>).query
                = rsql[1].query
          /\ rsql[1].params = <<rreq.user, rreq.date>> \o rreq.employee_id
    /\ (rreq.kind = "history" /\ rsql # <<>>)
       => /\ Len(rsql) = 1
          /\ \A s \in HistoryDates, t \in HistoryDates :
                (/\ s = <<>> <=> rreq.start_date = <<>>
                 /\ t = <<>> <=> rreq.end_date = <<>>)
                => HistoryQuery(rreq.user, s, t).query = rsql[1].query
          /\ rsql[1].params =
                <<rreq.user>>
                \o (IF rreq.start_date # <<>> THEN <<rreq.start_date>> ELSE <<>>)
                \o (IF rreq.end_date # <<>> THEN <<rreq.end_date>> ELSE <<>>)

\* A history request with a crafted start_date ran its statement and got the rows of
\* the range only: none, the crafted bound sorting after every date of the table.
C20_Witness ==
    /\ rreq.kind = "history" /\ rreq.start_date = Crafted /\ rreq.end_date = <<>>
    /\ Len(rsql) = 1 /\ rsql[1].params = <<rreq.user, Crafted>>
    /\ RowsOf(rreq.user) # <<>>
    /\ rres = Ok(<<>>)

\* C22: when the store fails the daily-summary statement, the answer is 500 without
\* success and with the fixed message "Failed to generate report"; the answer carries
\* neither the store's error text nor report data, and the statement was executed
\* once and not again.
C22_StoreFailureIsFixed500 ==
    (rreq.kind = "report" /\ rerr # "")
    => /\ rres.status = 500
       /\ rres.success = FALSE
       /\ rres.message = "Failed to generate report"
       /\ rres.message # rerr
       /\ rres.data = <<>>
       /\ Len(rsql) = 1

\* A manager asked for the report of a valid date and the store failed the statement.
C22_Witness ==
    /\ rreq.kind = "report"
    /\ users[rreq.user].role = "manager"
    /\ MatchesDate(rreq.date)
    /\ rerr \in StoreErrors
    /\ rres.status = 500

\* C28: no employee of a daily-summary answer has a manager_id other than the id of
\* the manager who asked, whatever employee_id the request carried.
C28_OnlyOwnEmployees ==
    Reported
    => \A i \in DOMAIN rres.data[1].employees :
          LET u == rres.data[1].employees[i].employee_id IN
          /\ u \in Employees
          /\ users[u].manager_id = rreq.user

\* A manager asked for the employee of another manager, who has a check-in on that
\* date, and was answered without that employee.
C28_Witness ==
    /\ Reported
    /\ rreq.employee_id # <<>>
    /\ rreq.employee_id[1] \in Employees
    /\ users[rreq.employee_id[1]].manager_id # rreq.user
    /\ CheckedInOn(rreq.employee_id[1], rreq.date)
    /\ rres.data[1].employees = <<>>

C27_ReportForManagers ==
    (location = "/report" /\ useAuth # NULL)
    => IF users[useAuth].role = "manager"
       THEN Page = "Daily Summary Report"
       ELSE Page = "Unauthorized access"

\* C24: on the History page, whatever the dates were changed to, two dates that are
\* both set have the end not before the start, and no date is after today.
C24_RangeNeverInverted ==
    (historyPage.startDate # <<>> /\ historyPage.endDate # <<>>)
    => /\ LessEq(historyPage.startDate, historyPage.endDate)
       /\ LessEq(historyPage.startDate, todayLocal)
       /\ LessEq(historyPage.endDate, todayLocal)

\* C25: a history request of the History page carries both start_date and end_date
\* or neither; the request of the mount and the request of Clear carry neither; and a
\* Filter submit with a date missing sends no request.
C25_BothDatesOrNeither ==
    /\ historyPage.request # <<>>
       => LET q == historyPage.request[1] IN
          /\ q.start_date = <<>> <=> q.end_date = <<>>
          /\ q.by \in {"mount", "clear"} => q.start_date = <<>> /\ q.end_date = <<>>
    /\ (/\ historyPage.event = "filter"
        /\ historyPage.startDate = <<>> \/ historyPage.endDate = <<>>)
       => historyPage.request = <<>> /\ ~historyPage.loading

\* Filter was submitted with a start date and no end date: an alert, no request.
C25_Witness ==
    /\ historyPage.event = "filter"
    /\ historyPage.startDate # <<>>
    /\ historyPage.endDate = <<>>
    /\ historyPage.alerted
    /\ historyPage.request = <<>>

\* C26: a click on Clear empties both dates; it sends a request exactly when both
\* dates were set, and that request is /checkin/history without parameters; when
\* that request succeeds the page shows the whole history and is no longer loading.
C26_ClearRefetchesUnfiltered ==
    [][/\ historyPage'.event = "clear"
          => /\ historyPage'.startDate = <<>> /\ historyPage'.endDate = <<>>
             /\ historyPage'.request # <<>>
                <=> (historyPage.startDate # <<>> /\ historyPage.endDate # <<>>)
             /\ historyPage'.request # <<>>
                => /\ historyPage'.request[1].start_date = <<>>
                   /\ historyPage'.request[1].end_date = <<>>
       /\ (/\ historyPage'.event = "response"
           /\ historyPage'.answered = "clear"
           /\ historyPage'.error = "")
          => /\ historyPage'.checkins = HistoryRows(HistoryQuery(useAuth, <<>>, <<>>))
             /\ ~historyPage'.loading]_vars

\* The request of a Clear succeeded: no dates, not loading, and a check-in shown.
C26_Witness ==
    /\ historyPage.event = "response"
    /\ historyPage.answered = "clear"
    /\ historyPage.error = ""
    /\ historyPage.startDate = <<>> /\ historyPage.endDate = <<>>
    /\ ~historyPage.loading
    /\ historyPage.checkins # <<>>

\* The time a stored timestamp is on the browser's clock: the stored UTC time moved
\* by the zone's offset.
LocalTime(stored, offset) ==
    [day |-> (stored.day * MinutesPerDay + stored.minute + offset) \div MinutesPerDay,
     hour |-> ((stored.day * MinutesPerDay + stored.minute + offset) % MinutesPerDay) \div 60,
     minute |-> (stored.minute + offset) % 60,
     text |-> ""]

\* C21: the History page and the active check-in card of the CheckIn page both show a
\* stored timestamp as the UTC time it is, moved to the browser's zone: 09:15 stored
\* is 14:45 at UTC+5:30 on either page.
C21_StoredTimeShownAsUtc ==
    /\ shown.history # <<>> => shown.history[1] = LocalTime(viewer.stored, viewer.offset)
    /\ shown.checkIn # <<>> => shown.checkIn[1] = LocalTime(viewer.stored, viewer.offset)

\* C29: on the CheckIn page submitting is true exactly while its check-in or checkout
\* request is in flight; it is false again once that request has settled, however it
\* ended; and as both buttons are disabled while it is true, the page never has two
\* such requests in flight.
C29_SubmittingWhileInFlight ==
    /\ Len(checkInPage.requests) <= 1
    /\ checkInPage.submitting <=> checkInPage.requests # <<>>
    /\ checkInPage.event = "settled" => ~checkInPage.submitting

\* A check-in of the page was refused (the employee had checked in elsewhere) and
\* submitting is false again.
C29_Witness ==
    /\ checkInPage.event = "settled"
    /\ checkInPage.cause = "checkin"
    /\ ~checkInPage.fetched
    /\ checkInPage.error = "You already have an active check-in"
    /\ ~checkInPage.submitting
    /\ checkInPage.requests = <<>>

\* C30: the refetch that follows a successful check-in of the page, when it succeeds,
\* sets activeCheckin to the employee's open record, and the one that follows a
\* successful checkout sets it to null (no other request being served by the backend
\* or reaching it from the moment the page sent its own).
C30_RefetchFollowsTheAction ==
    [][(/\ checkInPage'.event = "fetched"
        /\ checkInPage'.fetched
        /\ checkInPage'.fresh)
       => /\ checkInPage'.cause = "checkin"
             => /\ checkInPage'.activeCheckin # <<>>
                /\ checkInPage'.activeCheckin[1].employee_id = useAuth
                /\ checkInPage'.activeCheckin[1].status = "checked_in"
          /\ checkInPage'.cause = "checkout"
             => checkInPage'.activeCheckin = <<>>]_vars
====
